---- MODULE Spec2Model ----
(***************************************************************************)
(* Member savings and loan scheme (src/savings_loan_app/app.py).           *)
(*                                                                         *)
(* The state is the content of the tables plus the system date and the     *)
(* last HTTP response.  Every route handler is one action: it reads the    *)
(* rows, works on in-memory Decimal values and, where the handler reaches  *)
(* db.session.commit(), writes the rows back.  A member row carries its    *)
(* savings_transactions and a loan row its loan_transactions (the two      *)
(* relationships of the models), each in insert order.                     *)
(*                                                                         *)
(* Money.  A stored amount is a Numeric(10, 2) column: the value read back *)
(* from the store has two decimals.  It is modelled as an integer number   *)
(* of cents.  Inside a request the handler computes with Python Decimals,  *)
(* which are exact and are never quantized by the code: 20% of a whole     *)
(* number of cents has up to one more decimal per multiplication.  An      *)
(* in-memory amount is modelled as an integer number of units, one cent    *)
(* being Scale units, Scale a power of 5 large enough for every product    *)
(* the bounded clock allows.  Commit rounds units to cents.                *)
(***************************************************************************)
EXTENDS Integers, Sequences, FiniteSets, TLC

VARIABLES
    today,                  \* date.today()
    members,                \* table members, the primary key is the index
    loans,                  \* table loans, the primary key is the index
    resp,                   \* what the request just handled answered
    sessions                \* the requests in flight, one per server thread

vars == <<today, members, loans, resp, sessions>>

(***************************************************************************)
(* Business rule constants                                                 *)
(***************************************************************************)
INITIAL_DEPOSIT == 100000

MONTHLY_SUBSCRIPTION == 50000

LOAN_INTEREST_PERCENT == 20

LOAN_DUE_DAY == 5

CLOSE_TOLERANCE == 1

(***************************************************************************)
(* Bounds of the model                                                     *)
(***************************************************************************)
MaxMonths == 2

\* transaction rows in the database, savings and loan transactions together
MaxRows == 4

RECURSIVE Pow(_, _)
Pow(b, n) == IF n = 0 THEN 1 ELSE b * Pow(b, n - 1)

\* units per cent: one factor 5 for each multiplication by 0.20 in a request
Scale == Pow(100 \div LOAN_INTEREST_PERCENT, MaxMonths)

(***************************************************************************)
(* Dates                                                                   *)
(***************************************************************************)
MkDate(y, m, d) == [year |-> y, month |-> m, day |-> d]

NoDate == MkDate(0, 0, 0)

DateLT(a, b) ==
    \/ a.year < b.year
    \/ a.year = b.year /\ a.month < b.month
    \/ a.year = b.year /\ a.month = b.month /\ a.day < b.day

DateGE(a, b) == ~DateLT(a, b)

StartDate == MkDate(2024, 11, 1)

ClockDays == {1, 5, 6}

\* the k-th month after the start month
MonthAfter(k) ==
    LET idx == (StartDate.month - 1) + k
    IN  [year |-> StartDate.year + (idx \div 12), month |-> (idx % 12) + 1]

ClockDates ==
    { MkDate(MonthAfter(k).year, MonthAfter(k).month, d) :
        k \in 0..MaxMonths, d \in ClockDays }

(***************************************************************************)
(* Inputs of the requests                                                  *)
(***************************************************************************)
MemberIdStrings == {"MEM001", "MEM002"}

SavingsAmounts == {-1, 0, 1}

LoanAmounts == {-1, 0, 1, 2, 1000000}

PaymentAmounts == {-1, 0, 1, 1200001}

\* the primary keys a request may name: there are no more members than ids
MemberKeys == 1..Cardinality(MemberIdStrings)

(***************************************************************************)
(* Decimal and Numeric(10, 2)                                              *)
(***************************************************************************)
\* a stored amount loaded into the session
ToUnits(cents) == cents * Scale

\* An interest rate of 10% in the place of LOAN_INTEREST_RATE.
TimesRate_tenth(units) == units \div (2 * (100 \div LOAN_INTEREST_PERCENT))

\* Decimal * LOAN_INTEREST_RATE, exact
TimesRate(units) == units \div (100 \div LOAN_INTEREST_PERCENT)

\* the two-decimal value the store gives back for a written Decimal
RoundCents(units) ==
    LET q == units \div Scale
        r == units % Scale
    IN  IF 2 * r > Scale THEN q + 1
        ELSE IF 2 * r < Scale THEN q
        ELSE IF q % 2 = 0 THEN q ELSE q + 1

(***************************************************************************)
(* Responses                                                               *)
(***************************************************************************)
\* op, member, amount: the request; status: how it ended ("form": a GET that
\* rendered the page, "ok": done, else the error flashed); loan: the
\* loan row it worked on; before: that row's stored balance when it was
\* loaded; months, accrued: what _apply_overdue_interest flashed (months
\* charged, in-memory balance after the charges, in units); balance, due,
\* overdue, days_overdue: the loan figures a page or the summary shows;
\* count: the sweep's count.
NoResp ==
    [op |-> "none", status |-> "", member |-> 0, amount |-> 0,
     loan |-> 0, before |-> 0, months |-> 0, accrued |-> 0,
     balance |-> 0, due |-> NoDate, overdue |-> FALSE, days_overdue |-> 0,
     count |-> 0]

(***************************************************************************)
(* Initial state: empty tables                                             *)
(***************************************************************************)
\* the threads of the development server (app.run serves each request in a
\* thread of its own), each with its own db.session
Threads == {"t1", "t2"}

\* a thread that handles no request
IdleSession ==
    [phase |-> "idle", op |-> "none", member |-> 0, amount |-> 0, loan |-> 0,
     seen |-> << >>]

Init ==
    /\ today = StartDate
    /\ members = << >>
    /\ loans = << >>
    /\ resp = NoResp
    /\ sessions = [s \in Threads |-> IdleSession]

\* date.today() moves forward, to the next date of the clock; the response
\* handled before is gone
Tick(d) ==
    /\ DateLT(today, d)
    /\ ~\E e \in ClockDates : DateLT(today, e) /\ DateLT(e, d)
    /\ today' = d
    /\ resp' = NoResp
    /\ UNCHANGED <<members, loans, sessions>>

\* the number of rows in loan_transactions / savings_transactions
RECURSIVE SumLen(_, _)
SumLen(rows, i) ==
    IF i > Len(rows) THEN 0 ELSE Len(rows[i]) + SumLen(rows, i + 1)

LoanTxCount(rows) ==
    SumLen([i \in 1..Len(rows) |-> rows[i].loan_transactions], 1)

SavingsTxCount(rows) ==
    SumLen([i \in 1..Len(rows) |-> rows[i].savings_transactions], 1)

RowCount(member_rows, loan_rows) ==
    SavingsTxCount(member_rows) + LoanTxCount(loan_rows)

\* A validation that lets an amount of zero through.
InvalidAmount_negative(amount) == amount < 0

\* if amount <= 0: the test of pay_savings, issue_loan and repay_loan
InvalidAmount(amount) == amount <= 0

(***************************************************************************)
(* add_member (POST; a GET only renders the form)                          *)
(***************************************************************************)
\* An add_member that does not look the member ID up.
MemberIdExists_unchecked(member_id) == FALSE

MemberIdExists(member_id) ==
    \E i \in 1..Len(members) : members[i].member_id = member_id

add_member(member_id) ==
    /\ LET base == [NoResp EXCEPT !.op = "add_member"]
       IN  IF MemberIdExists(member_id)
           THEN /\ resp' = [base EXCEPT !.status = "conflict"]
                /\ UNCHANGED members
           ELSE /\ RowCount(members, loans) < MaxRows
                /\ members' = Append(members,
                        [member_id |-> member_id,
                         savings_balance |-> RoundCents(ToUnits(INITIAL_DEPOSIT)),
                         savings_transactions |->
                            << [amount |-> RoundCents(ToUnits(INITIAL_DEPOSIT)),
                                transaction_type |-> "initial_deposit"] >>])
                /\ resp' = [base EXCEPT !.status = "ok",
                                        !.member = Len(members) + 1,
                                        !.amount = INITIAL_DEPOSIT]
    /\ UNCHANGED <<today, loans, sessions>>

(***************************************************************************)
(* pay_savings (POST), for a member that exists: get_or_404                *)
(***************************************************************************)
\* A pay_savings that credits the standard subscription whatever was paid.
NewSavingsBalance_subscription(member, amount) ==
    RoundCents(ToUnits(member.savings_balance) + ToUnits(MONTHLY_SUBSCRIPTION))

\* A pay_savings that sets the balance to the payment instead of adding it.
NewSavingsBalance_assigned(member, amount) == RoundCents(ToUnits(amount))

\* member.savings_balance += amount, as the committed row reads back
NewSavingsBalance(member, amount) ==
    RoundCents(ToUnits(member.savings_balance) + ToUnits(amount))

pay_savings(member_id, amount) ==
    /\ member_id \in 1..Len(members)
    /\ LET base == [NoResp EXCEPT !.op = "pay_savings", !.member = member_id,
                                  !.amount = amount]
           member == members[member_id]
       IN  IF InvalidAmount(amount)
           THEN /\ resp' = [base EXCEPT !.status = "validation"]
                /\ UNCHANGED members
           ELSE /\ RowCount(members, loans) < MaxRows
                /\ members' = [members EXCEPT ![member_id] =
                        [member EXCEPT
                           !.savings_balance = NewSavingsBalance(member, amount),
                           !.savings_transactions = Append(@,
                               [amount |-> RoundCents(ToUnits(amount)),
                                transaction_type |-> "monthly_subscription"])]]
                /\ resp' = [base EXCEPT !.status = "ok"]
    /\ UNCHANGED <<today, loans, sessions>>

(***************************************************************************)
(* The due date, as each of the three places computes it                   *)
(***************************************************************************)
\* An issue_loan whose loan is due one month from the day it was issued.
DueDateIssue_sameday(t) ==
    IF t.month = 12
    THEN MkDate(t.year + 1, 1, t.day)
    ELSE MkDate(t.year, t.month + 1, t.day)

DueDateIssue(t) ==
    IF t.day <= LOAN_DUE_DAY
    THEN MkDate(t.year, t.month, LOAN_DUE_DAY)
    ELSE IF t.month = 12
         THEN MkDate(t.year + 1, 1, LOAN_DUE_DAY)
         ELSE MkDate(t.year, t.month + 1, LOAN_DUE_DAY)

\* A due date after repayment that forgets the turn of the year.
DueDateRepay_sameyear(t) ==
    IF t.day <= LOAN_DUE_DAY
    THEN MkDate(t.year, t.month, LOAN_DUE_DAY)
    ELSE MkDate(t.year, (t.month % 12) + 1, LOAN_DUE_DAY)

\* A due date after repayment that is always the 5th of the current month.
DueDateRepay_thismonth(t) == MkDate(t.year, t.month, LOAN_DUE_DAY)

DueDateRepay(t) ==
    IF t.day <= LOAN_DUE_DAY
    THEN MkDate(t.year, t.month, LOAN_DUE_DAY)
    ELSE IF t.month = 12
         THEN MkDate(t.year + 1, 1, LOAN_DUE_DAY)
         ELSE MkDate(t.year, t.month + 1, LOAN_DUE_DAY)

DueDateAccrual(current_date) ==
    IF current_date.day <= LOAN_DUE_DAY
    THEN MkDate(current_date.year, current_date.month, LOAN_DUE_DAY)
    ELSE IF current_date.month = 12
         THEN MkDate(current_date.year + 1, 1, LOAN_DUE_DAY)
         ELSE MkDate(current_date.year, current_date.month + 1, LOAN_DUE_DAY)

(***************************************************************************)
(* Loan rows in the session                                                *)
(***************************************************************************)
\* Loan.query.filter_by(member_id=member_id, is_active=True)
\* A query for the loans of a member that forgets is_active=True.
ActiveLoans_any(member_id) ==
    { i \in 1..Len(loans) : loans[i].member_id = member_id }

ActiveLoans(member_id) ==
    { i \in 1..Len(loans) : loans[i].member_id = member_id /\ loans[i].is_active }

\* a row loaded into the session: the balance as a Decimal
LoadLoan(row) == [row EXCEPT !.current_balance = ToUnits(@)]

\* the row a committed session object reads back as
StoreLoan(loan) == [loan EXCEPT !.current_balance = RoundCents(@)]

(***************************************************************************)
(* issue_loan, for a member that exists: get_or_404                        *)
(***************************************************************************)
\* An issue_loan that never looks for an existing active loan.
ExistingLoan_unchecked(member_id) == FALSE

\* existing_loan = Loan.query.filter_by(...).first(); if existing_loan:
ExistingLoan(member_id) == ActiveLoans(member_id) # {}

issue_loan(method, member_id, loan_amount) ==
    /\ member_id \in 1..Len(members)
    /\ LET base == [NoResp EXCEPT !.op = "issue_loan", !.member = member_id]
       IN  IF ExistingLoan(member_id)
           THEN /\ resp' = [base EXCEPT !.status = "conflict"]
                /\ UNCHANGED loans
           ELSE IF method # "POST"
           THEN /\ resp' = [base EXCEPT !.status = "form"]
                /\ UNCHANGED loans
           ELSE IF InvalidAmount(loan_amount)
           THEN /\ resp' = [base EXCEPT !.status = "validation",
                                        !.amount = loan_amount]
                /\ UNCHANGED loans
           ELSE LET interest_amount == TimesRate(ToUnits(loan_amount))
                    total_amount == ToUnits(loan_amount) + interest_amount
                    due_date == DueDateIssue(today)
                IN  /\ RowCount(members, loans) < MaxRows
                    /\ loans' = Append(loans,
                          [member_id |-> member_id,
                           principal_amount |-> RoundCents(ToUnits(loan_amount)),
                           interest_amount |-> RoundCents(interest_amount),
                           total_amount |-> RoundCents(total_amount),
                           current_balance |-> RoundCents(total_amount),
                           next_due_date |-> due_date,
                           is_active |-> TRUE,
                           loan_transactions |->
                              << [amount |-> RoundCents(ToUnits(loan_amount)),
                                  transaction_type |-> "loan_issued"] >>])
                    /\ resp' = [base EXCEPT !.status = "ok",
                                            !.amount = loan_amount,
                                            !.loan = Len(loans) + 1]
    /\ UNCHANGED <<today, members, sessions>>

(***************************************************************************)
(* _apply_overdue_interest                                                 *)
(***************************************************************************)
\* A count of the months that have fully elapsed, the day of the month
\* taken into account.
MonthsOverdue_elapsed(next_due_date, current_date) ==
    (current_date.year - next_due_date.year) * 12
        + (current_date.month - next_due_date.month)
        - (IF current_date.day < next_due_date.day THEN 1 ELSE 0)

\* A month difference that forgets the years.
MonthsOverdue_sameyear(next_due_date, current_date) ==
    current_date.month - next_due_date.month

MonthsOverdue(next_due_date, current_date) ==
    (current_date.year - next_due_date.year) * 12
        + (current_date.month - next_due_date.month)

\* the loop: n more months on acc = [current_balance, charges], in units
RECURSIVE Compound(_, _)
Compound(acc, n) ==
    IF n = 0 THEN acc
    ELSE LET interest == TimesRate(acc.current_balance)
         IN  Compound([current_balance |-> acc.current_balance + interest,
                       charges |-> Append(acc.charges, interest)], n - 1)

\* An accrual that charges the interest and leaves next_due_date as it was.
NextDueAfterAccrual_stale(loan, current_date) == loan.next_due_date

\* An accrual that moves the due date one month on from the old due date.
NextDueAfterAccrual_fromold(loan, current_date) ==
    DueDateAccrual(MkDate(loan.next_due_date.year, loan.next_due_date.month,
                          LOAN_DUE_DAY + 1))

\* An accrual that leaves the loan due on the day of the accrual.
NextDueAfterAccrual_today(loan, current_date) == current_date

\* loan.next_due_date = next_due, after the loop
NextDueAfterAccrual(loan, current_date) == DueDateAccrual(current_date)

\* loan is a session object; the result is the object after the call, the
\* amounts of the overdue_interest transactions it added to the session, in
\* order, and the months it flashed (0: it returned early, nothing flashed)
apply_overdue_interest(loan, current_date) ==
    IF DateGE(loan.next_due_date, current_date)
    THEN [loan |-> loan, charges |-> << >>, months |-> 0]
    ELSE LET months_overdue == MonthsOverdue(loan.next_due_date, current_date)
         IN  IF months_overdue <= 0
             THEN [loan |-> loan, charges |-> << >>, months |-> 0]
             ELSE LET c == Compound([current_balance |-> loan.current_balance,
                                     charges |-> << >>], months_overdue)
                  IN  [loan |-> [loan EXCEPT
                                   !.current_balance = c.current_balance,
                                   !.next_due_date =
                                       NextDueAfterAccrual(loan, current_date)],
                       charges |-> c.charges,
                       months |-> months_overdue]

ChargeRows(charges) ==
    [k \in 1..Len(charges) |->
        [amount |-> RoundCents(charges[k]),
         transaction_type |-> "overdue_interest"]]

\* A sweep that keeps one overdue_interest row per loan: when the last row
\* of the log is one, the latest charge takes its place.
WithCharges_merged(acc) ==
    LET log == acc.loan.loan_transactions
        new == ChargeRows(acc.charges)
    IN  IF Len(new) > 0 /\ log[Len(log)].transaction_type = "overdue_interest"
        THEN [acc.loan EXCEPT !.loan_transactions =
                 [log EXCEPT ![Len(log)] = new[Len(new)]]]
        ELSE [acc.loan EXCEPT !.loan_transactions = log \o new]

\* the session object with the charges' rows added to its loan_transactions
WithCharges(acc) ==
    [acc.loan EXCEPT !.loan_transactions = @ \o ChargeRows(acc.charges)]

(***************************************************************************)
(* date - date, in days                                                    *)
(***************************************************************************)
IsLeap(y) == (y % 4 = 0) /\ ((y % 100 # 0) \/ (y % 400 = 0))

DaysInMonth(y, m) ==
    IF m = 2 THEN (IF IsLeap(y) THEN 29 ELSE 28)
    ELSE IF m \in {4, 6, 9, 11} THEN 30 ELSE 31

RECURSIVE DaysBeforeMonth(_, _)
DaysBeforeMonth(y, m) ==
    IF m = 1 THEN 0 ELSE DaysBeforeMonth(y, m - 1) + DaysInMonth(y, m - 1)

ToOrdinal(d) ==
    LET y == d.year - 1
    IN  y * 365 + (y \div 4) - (y \div 100) + (y \div 400)
          + DaysBeforeMonth(d.year, d.month) + d.day

DaysOverdue(next_due_date, t) ==
    IF DateLT(next_due_date, t) THEN ToOrdinal(t) - ToOrdinal(next_due_date) ELSE 0

(***************************************************************************)
(* repay_loan, for a member that exists: get_or_404                        *)
(***************************************************************************)
\* A repay_loan that commits the accrual before it validates the payment.
Discarded_committed(loan_id, loan) ==
    [loans EXCEPT ![loan_id] = StoreLoan(loan)]

\* A repay_loan that validates the payment against the balance as loaded,
\* before the overdue interest is added.
BalanceToPay_loaded(row, loan) == row.current_balance

\* A repay_loan whose return without commit still writes the accrued
\* balance of the session to the loan.
Discarded_flushed(loan_id, loan) ==
    [loans EXCEPT ![loan_id].current_balance = RoundCents(loan.current_balance)]

\* a return without db.session.commit(): the session, with what
\* _apply_overdue_interest did to the loan in it, is discarded
Discarded(loan_id, loan) == loans

\* the balance the payment is compared with: loan.current_balance after
\* _apply_overdue_interest(loan, today); row is the loan as it was loaded
BalanceToPay(row, loan) == loan.current_balance

\* A repayment that moves the due date on even when it closes the loan.
Settle_rolled(paid, t) ==
    IF paid.current_balance <= ToUnits(CLOSE_TOLERANCE)
    THEN [paid EXCEPT !.is_active = FALSE, !.current_balance = 0,
                      !.next_due_date = DueDateRepay(t)]
    ELSE [paid EXCEPT !.next_due_date = DueDateRepay(t)]

\* A repayment that closes the loan and leaves the few cents on it.
Settle_unsnapped(paid, t) ==
    IF paid.current_balance <= ToUnits(CLOSE_TOLERANCE)
    THEN [paid EXCEPT !.is_active = FALSE]
    ELSE [paid EXCEPT !.next_due_date = DueDateRepay(t)]

\* if loan.current_balance <= Decimal('0.01'): close, else: new due date
Settle(paid, t) ==
    IF paid.current_balance <= ToUnits(CLOSE_TOLERANCE)
    THEN [paid EXCEPT !.is_active = FALSE, !.current_balance = 0]
    ELSE [paid EXCEPT !.next_due_date = DueDateRepay(t)]

repay_loan(method, member_id, payment_amount) ==
    /\ member_id \in 1..Len(members)
    /\ LET base == [NoResp EXCEPT !.op = "repay_loan", !.member = member_id]
       IN  IF ActiveLoans(member_id) = {}
           THEN /\ resp' = [base EXCEPT !.status = "no_loan"]
                /\ UNCHANGED loans
           ELSE \E loan_id \in ActiveLoans(member_id) :
                LET acc == apply_overdue_interest(LoadLoan(loans[loan_id]), today)
                    loan == WithCharges(acc)
                    seen == [base EXCEPT !.loan = loan_id,
                                         !.before = loans[loan_id].current_balance,
                                         !.months = acc.months,
                                         !.accrued = loan.current_balance]
                IN  IF method # "POST"
                    THEN /\ resp' = [seen EXCEPT !.status = "form",
                                 !.due = loan.next_due_date,
                                 !.days_overdue = DaysOverdue(loan.next_due_date, today)]
                         /\ loans' = Discarded(loan_id, loan)
                    ELSE IF InvalidAmount(payment_amount)
                    THEN /\ resp' = [seen EXCEPT !.status = "validation",
                                                 !.amount = payment_amount]
                         /\ loans' = Discarded(loan_id, loan)
                    ELSE IF ToUnits(payment_amount)
                                > BalanceToPay(LoadLoan(loans[loan_id]), loan)
                    THEN /\ resp' = [seen EXCEPT !.status = "exceeds",
                                                 !.amount = payment_amount]
                         /\ loans' = Discarded(loan_id, loan)
                    ELSE LET paid ==
                                [loan EXCEPT
                                   !.current_balance = @ - ToUnits(payment_amount),
                                   !.loan_transactions = Append(@,
                                      [amount |-> RoundCents(ToUnits(payment_amount)),
                                       transaction_type |-> "repayment"])]
                             after == Settle(paid, today)
                         IN  /\ loans' = [loans EXCEPT ![loan_id] = StoreLoan(after)]
                             /\ RowCount(members, loans') <= MaxRows
                             /\ resp' = [seen EXCEPT !.status = "ok",
                                                     !.amount = payment_amount]
    /\ UNCHANGED <<today, members, sessions>>

(***************************************************************************)
(* process_overdue                                                         *)
(***************************************************************************)
\* A sweep that does not filter on is_active: every loan past its due date
\* is charged, closed ones too.
SweptLoan_all(row, current_date) ==
    IF DateLT(row.next_due_date, current_date)
    THEN StoreLoan(WithCharges(apply_overdue_interest(LoadLoan(row), current_date)))
    ELSE row

\* the loop over the active loans and the commit: row i after the sweep
SweptLoan(row, current_date) ==
    IF row.is_active /\ DateLT(row.next_due_date, current_date)
    THEN StoreLoan(WithCharges(apply_overdue_interest(LoadLoan(row), current_date)))
    ELSE row

\* A sweep that counts the loans it charged interest on.
OverdueCount_charged(rows, current_date) ==
    Cardinality({ i \in 1..Len(rows) :
        /\ rows[i].is_active
        /\ DateLT(rows[i].next_due_date, current_date)
        /\ MonthsOverdue(rows[i].next_due_date, current_date) > 0 })

\* overdue_count += 1 for every active loan with next_due_date < today
OverdueCount(rows, current_date) ==
    Cardinality({ i \in 1..Len(rows) :
        rows[i].is_active /\ DateLT(rows[i].next_due_date, current_date) })

process_overdue ==
    LET swept == [i \in 1..Len(loans) |-> SweptLoan(loans[i], today)]
        overdue_count == OverdueCount(loans, today)
    IN  /\ RowCount(members, swept) <= MaxRows
        /\ loans' = swept
        /\ resp' = [NoResp EXCEPT !.op = "process_overdue", !.status = "ok",
                                  !.count = overdue_count]
        /\ UNCHANGED <<today, members, sessions>>

(***************************************************************************)
(* view_member and member_summary_api: read-only                           *)
(***************************************************************************)
view_member(member_id) ==
    /\ member_id \in 1..Len(members)
    /\ LET base == [NoResp EXCEPT !.op = "view_member", !.member = member_id,
                                  !.status = "ok"]
       IN  IF ActiveLoans(member_id) = {}
           THEN resp' = base
           ELSE \E loan_id \in ActiveLoans(member_id) :
                resp' = [base EXCEPT
                    !.loan = loan_id,
                    !.balance = loans[loan_id].current_balance,
                    !.due = loans[loan_id].next_due_date,
                    !.overdue = DateLT(loans[loan_id].next_due_date, today),
                    !.days_overdue = DaysOverdue(loans[loan_id].next_due_date, today)]
    /\ UNCHANGED <<today, members, loans, sessions>>

member_summary_api(member_id) ==
    /\ member_id \in 1..Len(members)
    /\ LET base == [NoResp EXCEPT !.op = "member_summary_api",
                                  !.member = member_id, !.status = "ok"]
       IN  IF ActiveLoans(member_id) = {}
           THEN resp' = base
           ELSE \E loan_id \in ActiveLoans(member_id) :
                resp' = [base EXCEPT
                    !.loan = loan_id,
                    !.balance = loans[loan_id].current_balance,
                    !.due = loans[loan_id].next_due_date,
                    !.overdue = DateLT(loans[loan_id].next_due_date, today)]
    /\ UNCHANGED <<today, members, loans, sessions>>

(***************************************************************************)
(* The system: requests are handled one at a time                          *)
(***************************************************************************)
Next ==
    \/ \E d \in ClockDates : Tick(d)
    \/ \E s \in MemberIdStrings : add_member(s)
    \/ \E m \in MemberKeys, a \in SavingsAmounts : pay_savings(m, a)
    \/ \E m \in MemberKeys : issue_loan("GET", m, 0)
    \/ \E m \in MemberKeys, a \in LoanAmounts : issue_loan("POST", m, a)
    \/ \E m \in MemberKeys : repay_loan("GET", m, 0)
    \/ \E m \in MemberKeys, a \in PaymentAmounts : repay_loan("POST", m, a)
    \/ process_overdue
    \/ \E m \in MemberKeys : view_member(m)
    \/ \E m \in MemberKeys : member_summary_api(m)

Spec == Init /\ [][Next]_vars

(***************************************************************************)
(* The system with requests in flight at the same time.  A request reads   *)
(* its rows when it starts (the SELECT of its query holds no lock and no   *)
(* transaction), works on the objects of its own db.session, and writes    *)
(* at db.session.commit(): an UPDATE of the columns its session changed    *)
(* and an INSERT of the rows it added.  The database runs the commits one  *)
(* after the other; nothing in the code locks a row, re-reads it before    *)
(* writing, or constrains the table.                                       *)
(***************************************************************************)
ConcurrentLoanAmounts == {1000000}
ConcurrentPaymentAmounts == {1, 1200000}

\* the cap on transaction rows, with room for the rows of two requests
MaxRowsInFlight == MaxRows + 1

\* Loan.query.filter_by(member_id=member_id, is_active=True) on the rows a
\* session has read
SeenActiveLoans(seen, member_id) ==
    { i \in 1..Len(seen) : seen[i].member_id = member_id /\ seen[i].is_active }

\* the Loan and its loan_issued transaction that issue_loan adds to its
\* session, as the committed rows read back
NewLoan(member_id, loan_amount, t) ==
    LET interest_amount == TimesRate(ToUnits(loan_amount))
        total_amount == ToUnits(loan_amount) + interest_amount
    IN  [member_id |-> member_id,
         principal_amount |-> RoundCents(ToUnits(loan_amount)),
         interest_amount |-> RoundCents(interest_amount),
         total_amount |-> RoundCents(total_amount),
         current_balance |-> RoundCents(total_amount),
         next_due_date |-> DueDateIssue(t),
         is_active |-> TRUE,
         loan_transactions |->
            << [amount |-> RoundCents(ToUnits(loan_amount)),
                transaction_type |-> "loan_issued"] >>]

\* the loan object of a repay_loan (POST) session when it reaches
\* db.session.commit(); the object as loaded when the request returns
\* before it
RepaidLoan(row, payment_amount, t) ==
    LET loan == WithCharges(apply_overdue_interest(LoadLoan(row), t))
    IN  IF \/ InvalidAmount(payment_amount)
           \/ ToUnits(payment_amount) > BalanceToPay(LoadLoan(row), loan)
        THEN LoadLoan(row)
        ELSE Settle([loan EXCEPT
                        !.current_balance = @ - ToUnits(payment_amount),
                        !.loan_transactions = Append(@,
                           [amount |-> RoundCents(ToUnits(payment_amount)),
                            transaction_type |-> "repayment"])], t)

\* the loan object of a process_overdue session when it reaches
\* db.session.commit()
SweptObject(row, t) ==
    IF row.is_active /\ DateLT(row.next_due_date, t)
    THEN WithCharges(apply_overdue_interest(LoadLoan(row), t))
    ELSE LoadLoan(row)

\* db.session.commit() for one loan: the UPDATE sets the columns in which
\* the session's object differs from the row as the session read it, and
\* the transactions the session added are inserted; row is the loan as it
\* is in the database now
Flush(row, seen, loan) ==
    [row EXCEPT
        !.current_balance =
            IF loan.current_balance # ToUnits(seen.current_balance)
            THEN RoundCents(loan.current_balance) ELSE @,
        !.next_due_date =
            IF loan.next_due_date # seen.next_due_date
            THEN loan.next_due_date ELSE @,
        !.is_active =
            IF loan.is_active # seen.is_active THEN loan.is_active ELSE @,
        !.loan_transactions =
            @ \o SubSeq(loan.loan_transactions,
                        Len(seen.loan_transactions) + 1,
                        Len(loan.loan_transactions))]

\* thread s is free to take a request; the second thread takes one only
\* while the first is busy
Free(s) ==
    /\ sessions[s].phase = "idle"
    /\ s # "t1" => sessions["t1"].phase # "idle"

\* a thread takes a request and runs its queries
begin_issue_loan(s, member_id, loan_amount) ==
    /\ Free(s)
    /\ member_id \in 1..Len(members)
    /\ sessions' = [sessions EXCEPT ![s] =
          [phase |-> "read", op |-> "issue_loan", member |-> member_id,
           amount |-> loan_amount, loan |-> 0, seen |-> loans]]
    /\ UNCHANGED <<today, members, loans, resp>>

begin_repay_loan(s, member_id, payment_amount) ==
    /\ Free(s)
    /\ member_id \in 1..Len(members)
    /\ \E loan_id \in IF ActiveLoans(member_id) = {} THEN {0}
                      ELSE ActiveLoans(member_id) :
          sessions' = [sessions EXCEPT ![s] =
             [phase |-> "read", op |-> "repay_loan", member |-> member_id,
              amount |-> payment_amount, loan |-> loan_id, seen |-> loans]]
    /\ UNCHANGED <<today, members, loans, resp>>

begin_process_overdue(s) ==
    /\ Free(s)
    /\ sessions' = [sessions EXCEPT ![s] =
          [phase |-> "read", op |-> "process_overdue", member |-> 0,
           amount |-> 0, loan |-> 0, seen |-> loans]]
    /\ UNCHANGED <<today, members, loans, resp>>

\* the table after the request of session r has run to its end
Committed(r) ==
    CASE r.op = "issue_loan" ->
            IF \/ SeenActiveLoans(r.seen, r.member) # {}
               \/ InvalidAmount(r.amount)
            THEN loans
            ELSE Append(loans, NewLoan(r.member, r.amount, today))
      [] r.op = "repay_loan" ->
            IF r.loan = 0
            THEN loans
            ELSE [loans EXCEPT ![r.loan] =
                    Flush(@, r.seen[r.loan],
                          RepaidLoan(r.seen[r.loan], r.amount, today))]
      [] r.op = "process_overdue" ->
            [i \in 1..Len(loans) |->
                IF i <= Len(r.seen)
                THEN Flush(loans[i], r.seen[i], SweptObject(r.seen[i], today))
                ELSE loans[i]]

\* the request of a thread runs from its queries to its end
finish(s) ==
    /\ sessions[s].phase = "read"
    /\ loans' = Committed(sessions[s])
    /\ RowCount(members, loans') <= MaxRowsInFlight
    /\ sessions' = [sessions EXCEPT ![s].phase = "done"]
    /\ UNCHANGED <<today, members, resp>>

\* no thread is between its queries and its end
NoneReading == \A s \in Threads : sessions[s].phase # "read"

\* the responses are sent and the sessions removed
teardown ==
    /\ NoneReading
    /\ \E s \in Threads : sessions[s].phase = "done"
    /\ sessions' = [s \in Threads |-> IdleSession]
    /\ UNCHANGED <<today, members, loans, resp>>

\* the date changes, and members register, between requests
TickIdle(d) ==
    /\ \A s \in Threads : sessions[s].phase = "idle"
    /\ Tick(d)

add_member_idle(member_id) ==
    /\ \A s \in Threads : sessions[s].phase = "idle"
    /\ add_member(member_id)

NextConcurrent ==
    \/ \E d \in ClockDates : TickIdle(d)
    \/ \E s \in MemberIdStrings : add_member_idle(s)
    \/ \E s \in Threads, m \in MemberKeys, a \in ConcurrentLoanAmounts :
          begin_issue_loan(s, m, a)
    \/ \E s \in Threads, m \in MemberKeys, a \in ConcurrentPaymentAmounts :
          begin_repay_loan(s, m, a)
    \/ \E s \in Threads : begin_process_overdue(s)
    \/ \E s \in Threads : finish(s)
    \/ teardown

SpecConcurrent == Init /\ [][NextConcurrent]_vars

(***************************************************************************)
(* What the properties below are stated with                               *)
(***************************************************************************)
\* The due-date rule as the specification words it: the 5th of d's month
\* when d.day <= 5, otherwise the 5th of the following month, December
\* rolling over to January of the next year.
DueDateRule(d) ==
    IF d.day <= 5 THEN MkDate(d.year, d.month, 5)
    ELSE IF d.month = 12 THEN MkDate(d.year + 1, 1, 5)
    ELSE MkDate(d.year, d.month + 1, 5)

\* 20% of an amount of whole cents, rounded to the cent.
Pct20(cents) == (cents * 20 + 50) \div 100

\* The rows a log gained between two reads of it.
Added(old, new) == SubSeq(new, Len(old) + 1, Len(new))

RECURSIVE SumAmounts(_, _)
SumAmounts(rows, k) ==
    IF k = 0 THEN 0 ELSE rows[k].amount + SumAmounts(rows, k - 1)

\* The active loans of member m in a loans table.
ActiveIn(table, m) ==
    { i \in 1..Len(table) : table[i].member_id = m /\ table[i].is_active }

\* The whole months by which a stored loan is overdue on date d: what
\* _apply_overdue_interest is to charge, 0 when it is to do nothing.
MonthsDue(row, d) ==
    IF row.is_active /\ DateLT(row.next_due_date, d)
            /\ MonthsOverdue(row.next_due_date, d) > 0
    THEN MonthsOverdue(row.next_due_date, d)
    ELSE 0

\* The balance of a stored loan with all the overdue interest due on date d,
\* 20% a month compounded and nothing rounded, in the units of ToUnits.
BalanceDue(row, d) ==
    (ToUnits(row.current_balance) \div Pow(5, MonthsDue(row, d)))
        * Pow(6, MonthsDue(row, d))

(***************************************************************************)
(* C1. After any sequence of operations every member has at most one       *)
(* active loan, and an issue_loan for a member who has one answers         *)
(* "conflict" and leaves the loans table, loan transactions included, as   *)
(* it was.                                                                 *)
(***************************************************************************)
C1_OneActiveLoan ==
    [][ /\ \A m \in 1..Len(members') : Cardinality(ActiveIn(loans', m)) <= 1
        /\ (resp'.op = "issue_loan" /\ ActiveIn(loans, resp'.member) # {})
              => (resp'.status = "conflict" /\ loans' = loans)
      ]_vars

\* A member with a closed loan and a new active one is refused a third.
C1_Witness ==
    /\ resp.op = "issue_loan"
    /\ resp.status = "conflict"
    /\ \E i \in 1..Len(loans) :
          loans[i].member_id = resp.member /\ ~loans[i].is_active

(***************************************************************************)
(* C2. An issue_loan of a principal > 0 for a member without an active     *)
(* loan succeeds and creates exactly one loan, with interest_amount = 20%  *)
(* of the principal rounded to the cent, total_amount = principal +        *)
(* interest_amount, current_balance = total_amount, is_active, and         *)
(* next_due_date by the due-date rule on today, and exactly one            *)
(* loan_issued transaction of the principal.                               *)
(***************************************************************************)
C2_IssueLoan ==
    [][ /\ (resp'.op = "issue_loan" /\ resp'.amount > 0
                /\ ActiveIn(loans, resp'.member) = {})
              => resp'.status = "ok"
        /\ (resp'.op = "issue_loan" /\ resp'.status = "ok")
              => /\ resp'.amount > 0
                 /\ Len(loans') = Len(loans) + 1
                 /\ SubSeq(loans', 1, Len(loans)) = loans
                 /\ resp'.loan = Len(loans')
                 /\ LET loan == loans'[Len(loans')]
                        principal == resp'.amount
                    IN  /\ loan.member_id = resp'.member
                        /\ loan.principal_amount = principal
                        /\ loan.interest_amount = Pct20(principal)
                        /\ loan.total_amount = principal + loan.interest_amount
                        /\ loan.current_balance = loan.total_amount
                        /\ loan.is_active
                        /\ loan.next_due_date = DueDateRule(today)
                        /\ loan.loan_transactions =
                              << [amount |-> principal,
                                  transaction_type |-> "loan_issued"] >>
      ]_vars

\* The 10000.00 of the example is issued: interest 2000.00, balance 12000.00.
C2_Witness ==
    /\ resp.op = "issue_loan"
    /\ resp.status = "ok"
    /\ resp.amount = 1000000
    /\ loans[resp.loan].interest_amount = 200000
    /\ loans[resp.loan].current_balance = 1200000

(***************************************************************************)
(* C3. A sweep that finds a loan n >= 1 whole months overdue appends       *)
(* exactly n overdue_interest transactions to it, the k-th of 20% of the   *)
(* balance as it stood after the (k-1)-th charge, and leaves the balance   *)
(* at the starting balance plus the sum of those n amounts.                *)
(***************************************************************************)
C3_CompoundLedger ==
    [][ resp'.op = "process_overdue" =>
          \A i \in 1..Len(loans) :
             LET n == MonthsDue(loans[i], today)
                 start == loans[i].current_balance
                 added == Added(loans[i].loan_transactions,
                                loans'[i].loan_transactions)
             IN  n >= 1 =>
                   /\ Len(added) = n
                   /\ \A k \in 1..Len(added) :
                        /\ added[k].transaction_type = "overdue_interest"
                        /\ added[k].amount =
                              Pct20(start + SumAmounts(added, k - 1))
                   /\ loans'[i].current_balance =
                          start + SumAmounts(added, Len(added))
      ]_vars

(***************************************************************************)
(* C4. Accrual is idempotent for a fixed date: applied to any loan a       *)
(* second time with the same today, it leaves the balance, the due date    *)
(* and the transaction log exactly as the first application left them.     *)
(***************************************************************************)
C4_AccrualIdempotent ==
    \A i \in 1..Len(loans) :
        LET first == apply_overdue_interest(LoadLoan(loans[i]), today)
            again == apply_overdue_interest(first.loan, today)
            once == StoreLoan(WithCharges(first))
            twice == StoreLoan(WithCharges(
                        apply_overdue_interest(LoadLoan(once), today)))
        IN  /\ again.charges = << >>
            /\ again.loan = first.loan
            /\ twice = once

\* A sweep has just charged an overdue loan its interest.
C4_Witness ==
    /\ resp.op = "process_overdue"
    /\ resp.count >= 1
    /\ \E i \in 1..Len(loans) :
          /\ loans[i].is_active
          /\ Len(loans[i].loan_transactions) >= 2
          /\ loans[i].loan_transactions[Len(loans[i].loan_transactions)]
                .transaction_type = "overdue_interest"

(***************************************************************************)
(* C5. A repay_loan of more than the loan's current balance is answered    *)
(* with the validation error, and the persisted loans and their            *)
(* transactions, like the members, are what they were before the request.  *)
(***************************************************************************)
C5_OverpaymentRejected ==
    [][ (resp'.op = "repay_loan" /\ resp'.loan # 0 /\ resp'.amount > 0)
          => LET balance == BalanceDue(loans[resp'.loan], today)
             IN  /\ (ToUnits(resp'.amount) > balance)
                        <=> resp'.status = "exceeds"
                 /\ resp'.status = "exceeds"
                        => (loans' = loans /\ members' = members)
      ]_vars

\* A payment is refused that exceeds a balance grown by overdue interest.
C5_Witness ==
    /\ resp.op = "repay_loan"
    /\ resp.status = "exceeds"
    /\ resp.months >= 1
    /\ ToUnits(resp.before) < resp.accrued
    /\ loans[resp.loan].current_balance = resp.before

(***************************************************************************)
(* C6. An accepted repayment appends exactly one repayment transaction of  *)
(* the payment and reduces the balance by exactly the payment; the loan    *)
(* is closed, inactive with balance 0.00, if and only if the resulting     *)
(* balance is <= 0.01, and otherwise stays active with the reduced         *)
(* balance.                                                                *)
(***************************************************************************)
C6_RepaymentCloses ==
    [][ (resp'.op = "repay_loan" /\ resp'.status = "ok")
          => LET row == loans[resp'.loan]
                 new == loans'[resp'.loan]
                 added == Added(row.loan_transactions, new.loan_transactions)
                 result == RoundCents(BalanceDue(row, today)) - resp'.amount
             IN  /\ Len(added) >= 1
                 /\ added[Len(added)] =
                       [amount |-> resp'.amount,
                        transaction_type |-> "repayment"]
                 /\ \A k \in 1..(Len(added) - 1) :
                       added[k].transaction_type # "repayment"
                 /\ ~new.is_active <=> result <= 1
                 /\ ~new.is_active => new.current_balance = 0
                 /\ new.is_active => new.current_balance = result
      ]_vars

(***************************************************************************)
(* C7. A pay_savings of an amount > 0 for an existing member succeeds,     *)
(* raises that member's savings_balance by exactly the amount and appends  *)
(* exactly one monthly_subscription transaction of the amount to that      *)
(* member; no other member and no loan changes.                            *)
(***************************************************************************)
C7_PaySavings ==
    [][ /\ (resp'.op = "pay_savings" /\ resp'.amount > 0)
              => resp'.status = "ok"
        /\ (resp'.op = "pay_savings" /\ resp'.status = "ok")
              => LET m == resp'.member
                 IN  /\ resp'.amount > 0
                     /\ Len(members') = Len(members)
                     /\ members'[m].member_id = members[m].member_id
                     /\ members'[m].savings_balance =
                           members[m].savings_balance + resp'.amount
                     /\ members'[m].savings_transactions =
                           Append(members[m].savings_transactions,
                                  [amount |-> resp'.amount,
                                   transaction_type |-> "monthly_subscription"])
                     /\ \A o \in 1..Len(members) :
                           o # m => members'[o] = members[o]
                     /\ loans' = loans
      ]_vars

\* A payment into the savings of one of two members, the other one having
\* an active loan.
C7_Witness ==
    /\ resp.op = "pay_savings"
    /\ resp.status = "ok"
    /\ Len(members) = 2
    /\ \E i \in 1..Len(loans) :
          loans[i].is_active /\ loans[i].member_id # resp.member

(***************************************************************************)
(* C8. On every date d the system reaches, the due date is the 5th of d's  *)
(* month when d.day <= 5 and otherwise the 5th of the following month,     *)
(* December rolling over to January of the next year; it is never earlier  *)
(* than d, and issuance, accrual and repayment compute it identically.  A  *)
(* loan just issued, and one just repaid and still active, are due on      *)
(* that date.                                                              *)
(***************************************************************************)
C8_DueDate ==
    /\ DueDateIssue(today) = DueDateRule(today)
    /\ DueDateAccrual(today) = DueDateIssue(today)
    /\ DueDateRepay(today) = DueDateIssue(today)
    /\ DateGE(DueDateIssue(today), today)
    /\ DueDateIssue(today).day = 5
    /\ (resp.op \in {"issue_loan", "repay_loan"} /\ resp.status = "ok"
            /\ loans[resp.loan].is_active)
          => loans[resp.loan].next_due_date = DueDateRule(today)

\* A partial repayment after the 5th of December: the loan is due on the
\* 5th of January of the next year.
C8_Witness ==
    /\ resp.op = "repay_loan"
    /\ resp.status = "ok"
    /\ today.month = 12
    /\ today.day > 5
    /\ loans[resp.loan].is_active
    /\ loans[resp.loan].next_due_date = MkDate(today.year + 1, 1, 5)

C10_SummaryAfterAccrual ==
    (resp.op \in {"member_summary_api", "view_member"} /\ resp.loan # 0)
        => LET row == loans[resp.loan]
           IN  /\ resp.balance = RoundCents(BalanceDue(row, today))
               /\ MonthsDue(row, today) >= 1 => resp.due = DueDateRule(today)
               /\ MonthsDue(row, today) = 0 => resp.due = row.next_due_date

(***************************************************************************)
(* C11. A sweep applies accrual to every active loan, reports the number   *)
(* of active loans whose next_due_date was before today when it started,   *)
(* and leaves every closed loan and every member's savings as they were.   *)
(***************************************************************************)
C11_Sweep ==
    [][ resp'.op = "process_overdue" =>
          /\ resp'.count =
                Cardinality({ i \in 1..Len(loans) :
                    loans[i].is_active /\ DateLT(loans[i].next_due_date, today) })
          /\ members' = members
          /\ Len(loans') = Len(loans)
          /\ \A i \in 1..Len(loans) :
                /\ ~loans[i].is_active => loans'[i] = loans[i]
                /\ loans[i].is_active =>
                      /\ loans'[i].is_active
                      /\ loans'[i].current_balance =
                            RoundCents(BalanceDue(loans[i], today))
                      /\ Len(Added(loans[i].loan_transactions,
                                   loans'[i].loan_transactions))
                            = MonthsDue(loans[i], today)
                      /\ SubSeq(loans'[i].loan_transactions, 1,
                                Len(loans[i].loan_transactions))
                            = loans[i].loan_transactions
      ]_vars

\* A sweep has counted an overdue loan, with a closed loan in the table.
C11_Witness ==
    /\ resp.op = "process_overdue"
    /\ resp.count = 1
    /\ \E i \in 1..Len(loans) : ~loans[i].is_active
    /\ \E i \in 1..Len(loans) : loans[i].is_active

(***************************************************************************)
(* C12. An add_member with a member ID that exists answers "conflict" and  *)
(* changes nothing; with a new ID it creates exactly one member, with      *)
(* savings_balance the initial deposit and exactly one initial_deposit     *)
(* transaction of that amount.  The member ID is unique among the members  *)
(* of every reachable state.                                               *)
(***************************************************************************)
C12_AddMember ==
    [][ /\ \A i, j \in 1..Len(members') :
              members'[i].member_id = members'[j].member_id => i = j
        /\ (resp'.op = "add_member" /\ resp'.status = "conflict")
              => (members' = members /\ loans' = loans)
        /\ (resp'.op = "add_member" /\ resp'.status # "conflict")
              => /\ resp'.status = "ok"
                 /\ Len(members') = Len(members) + 1
                 /\ SubSeq(members', 1, Len(members)) = members
                 /\ loans' = loans
                 /\ resp'.member = Len(members')
                 /\ LET member == members'[Len(members')]
                    IN  /\ \A i \in 1..Len(members) :
                              members[i].member_id # member.member_id
                        /\ member.savings_balance = 100000
                        /\ member.savings_transactions =
                              << [amount |-> 100000,
                                  transaction_type |-> "initial_deposit"] >>
      ]_vars

\* A registration is refused when both member IDs are taken.
C12_Witness ==
    /\ resp.op = "add_member"
    /\ resp.status = "conflict"
    /\ Len(members) = 2
    /\ members[1].member_id # members[2].member_id

(***************************************************************************)
(* C13. pay_savings, issue_loan and repay_loan never accept an amount      *)
(* <= 0: such a request is answered with the validation error (where the   *)
(* handler gets as far as the amount), and a request so answered leaves    *)
(* the members, the loans and all transactions as they were.               *)
(***************************************************************************)
C13_NonPositiveAmount ==
    [][ resp'.op \in {"pay_savings", "issue_loan", "repay_loan"} =>
          /\ resp'.status \in {"ok", "exceeds"} => resp'.amount > 0
          /\ resp'.status = "validation" =>
                /\ resp'.amount <= 0
                /\ members' = members
                /\ loans' = loans
          /\ (resp'.amount <= 0 /\ resp'.op = "pay_savings")
                => resp'.status = "validation"
          /\ resp'.amount < 0 => resp'.status = "validation"
      ]_vars

\* A repayment of a negative amount is refused on a loan that the same
\* request has charged overdue interest in its session.
C13_Witness ==
    /\ resp.op = "repay_loan"
    /\ resp.status = "validation"
    /\ resp.amount < 0
    /\ resp.months >= 1
    /\ loans[resp.loan].current_balance = resp.before
    /\ Len(loans[resp.loan].loan_transactions) = 1

(***************************************************************************)
(* C14. A repay_loan for a member without an active loan, one who never    *)
(* borrowed or whose loan has been closed, answers that there is no active *)
(* loan and changes nothing.                                               *)
(***************************************************************************)
C14_NoActiveLoan ==
    [][ resp'.op = "repay_loan" =>
          /\ ActiveIn(loans, resp'.member) = {} <=> resp'.status = "no_loan"
          /\ resp'.status = "no_loan" =>
                (members' = members /\ loans' = loans)
      ]_vars

\* A member whose only loan has been closed cannot repay.
C14_Witness ==
    /\ resp.op = "repay_loan"
    /\ resp.status = "no_loan"
    /\ \E i \in 1..Len(loans) :
          loans[i].member_id = resp.member /\ ~loans[i].is_active

(***************************************************************************)
(* C15. After an accepted repayment that leaves the loan active,           *)
(* next_due_date is the due date of today whatever it was before, also     *)
(* when it was still in the future; a repayment that closes the loan does  *)
(* not recompute next_due_date: it stays what the accrual of the request   *)
(* left.                                                                   *)
(***************************************************************************)
C15_DueDateAfterRepayment ==
    [][ (resp'.op = "repay_loan" /\ resp'.status = "ok")
          => LET row == loans[resp'.loan]
                 new == loans'[resp'.loan]
             IN  /\ new.is_active => new.next_due_date = DueDateRule(today)
                 /\ ~new.is_active =>
                       new.next_due_date =
                          IF MonthsDue(row, today) >= 1
                          THEN DueDateRule(today)
                          ELSE row.next_due_date
      ]_vars

\* A partial repayment on or before the 5th, of a loan that was not
\* overdue: its due date was still to come.
C15_Witness ==
    /\ resp.op = "repay_loan"
    /\ resp.status = "ok"
    /\ resp.months = 0
    /\ today.day <= 5
    /\ loans[resp.loan].is_active
    /\ DateGE(loans[resp.loan].next_due_date, today)

(***************************************************************************)
(* C16. The number of interest increments of one accrual is the            *)
(* calendar-month difference (today.year - due.year) * 12 + (today.month - *)
(* due.month), the day of the month ignored: the accrual changes nothing   *)
(* when next_due_date >= today or when today is a later day of the month   *)
(* of next_due_date, and it applies exactly one increment to a loan due on *)
(* the 5th on the 1st of the following month.                              *)
(***************************************************************************)
C16_MonthsOverdue ==
    \A i \in 1..Len(loans) :
        LET row == loans[i]
            due == row.next_due_date
            acc == apply_overdue_interest(LoadLoan(row), today)
            diff == (today.year - due.year) * 12 + (today.month - due.month)
        IN  row.is_active =>
              /\ (DateGE(due, today)
                    \/ (due.year = today.year /\ due.month = today.month))
                    => (acc.loan = LoadLoan(row) /\ acc.charges = << >>)
              /\ (DateLT(due, today) /\ diff >= 1)
                    => Len(acc.charges) = diff
              /\ (today.day = 1 /\ DueDateRule(due) = due /\ diff = 1)
                    => (Len(acc.charges) = 1 /\ SweptLoan(row, today) # row)

\* On the 1st of December a sweep has charged one month of interest on a
\* loan that was due on the 5th of November.
C16_Witness ==
    /\ resp.op = "process_overdue"
    /\ resp.count = 1
    /\ today = MkDate(2024, 12, 1)
    /\ \E i \in 1..Len(loans) :
          /\ Len(loans[i].loan_transactions) = 2
          /\ loans[i].loan_transactions[2].transaction_type = "overdue_interest"

(***************************************************************************)
(* C17. An accrual that applies at least one increment sets next_due_date  *)
(* to the due date of today, not of the old due date, so that afterwards   *)
(* next_due_date >= today however many months the loan was overdue; an     *)
(* accrual that applies none leaves next_due_date alone.                   *)
(***************************************************************************)
C17_DueDateAfterAccrual ==
    [][ resp'.op = "process_overdue" =>
          \A i \in 1..Len(loans) :
             /\ MonthsDue(loans[i], today) >= 1 =>
                   /\ loans'[i].next_due_date = DueDateRule(today)
                   /\ DateGE(loans'[i].next_due_date, today)
             /\ MonthsDue(loans[i], today) = 0 =>
                   loans'[i].next_due_date = loans[i].next_due_date
      ]_vars

\* A sweep has charged a loan of 0.02 two months at once (its balance is
\* 0.03) and the loan is due on the 5th of January.
C17_Witness ==
    /\ resp.op = "process_overdue"
    /\ \E i \in 1..Len(loans) :
          /\ loans[i].principal_amount = 2
          /\ loans[i].current_balance = 3
          /\ Len(loans[i].loan_transactions) = 3
          /\ loans[i].next_due_date = MkDate(2025, 1, 5)

(***************************************************************************)
(* C18. Each monthly increment of overdue interest is rounded to 2         *)
(* decimals before it is added: in the accrual of any active loan on any   *)
(* date every increment, and the balance after it, is a whole number of    *)
(* cents, and so is the balance a repay_loan works with after its accrual. *)
(***************************************************************************)
C18_RoundedIncrements ==
    /\ \A i \in 1..Len(loans) :
          loans[i].is_active =>
             LET acc == apply_overdue_interest(LoadLoan(loans[i]), today)
             IN  /\ \A k \in 1..Len(acc.charges) : acc.charges[k] % Scale = 0
                 /\ acc.loan.current_balance % Scale = 0
    /\ (resp.op = "repay_loan" /\ resp.loan # 0) => resp.accrued % Scale = 0

C20_ActiveAboveTolerance ==
    \A i \in 1..Len(loans) :
        \/ loans[i].is_active /\ loans[i].current_balance > 1
        \/ ~loans[i].is_active /\ loans[i].current_balance = 0

(***************************************************************************)
(* C20, amended.  In every reachable state each loan is either active with *)
(* current_balance >= 0.01 or closed with current_balance exactly 0.00;    *)
(* the balance is never negative and an active loan never has balance      *)
(* 0.00.                                                                   *)
(***************************************************************************)
C20_ActivePositive ==
    \A i \in 1..Len(loans) :
        /\ loans[i].current_balance >= 0
        /\ \/ loans[i].is_active /\ loans[i].current_balance >= 1
           \/ ~loans[i].is_active /\ loans[i].current_balance = 0

\* A loan of 0.01 has been issued: it is active with balance 0.01; and
\* another loan has been repaid and closed at 0.00.
C20_Witness ==
    /\ resp.op = "issue_loan"
    /\ resp.status = "ok"
    /\ resp.amount = 1
    /\ loans[resp.loan].is_active
    /\ loans[resp.loan].current_balance = 1
    /\ \E i \in 1..Len(loans) : ~loans[i].is_active

(***************************************************************************)
(* C21. In every reachable state the next_due_date of every loan falls on  *)
(* the 5th of a month, whichever of issue_loan, _apply_overdue_interest    *)
(* and repay_loan set it last.                                             *)
(***************************************************************************)
C21_DueOnTheFifth ==
    \A i \in 1..Len(loans) : loans[i].next_due_date.day = LOAN_DUE_DAY

\* A sweep has charged a loan overdue interest and moved its due date: the
\* last row of the loan's log is the charge, and the loan is due in the
\* future again.
C21_Witness ==
    /\ resp.op = "process_overdue"
    /\ resp.count >= 1
    /\ \E i \in 1..Len(loans) :
          LET log == loans[i].loan_transactions
          IN  /\ loans[i].is_active
              /\ log[Len(log)].transaction_type = "overdue_interest"
              /\ DateGE(loans[i].next_due_date, today)
              /\ loans[i].next_due_date.day = LOAN_DUE_DAY

\* s is the beginning of t.
IsPrefix(s, t) == Len(s) <= Len(t) /\ SubSeq(t, 1, Len(s)) = s

(***************************************************************************)
(* C22. The savings and loan transaction logs are append-only: whatever    *)
(* the step, every member and every loan that existed is still there with  *)
(* the same owner, every transaction that existed is still in its log at   *)
(* its place with the same amount and type, and no log and no table gets   *)
(* shorter.                                                                *)
(***************************************************************************)
C22_AppendOnly ==
    [][ /\ Len(members') >= Len(members)
        /\ Len(loans') >= Len(loans)
        /\ \A m \in 1..Len(members) :
              /\ members'[m].member_id = members[m].member_id
              /\ IsPrefix(members[m].savings_transactions,
                          members'[m].savings_transactions)
        /\ \A i \in 1..Len(loans) :
              /\ loans'[i].member_id = loans[i].member_id
              /\ IsPrefix(loans[i].loan_transactions,
                          loans'[i].loan_transactions)
      ]_vars

\* A sweep has appended a charge to a log that held the loan_issued row and a
\* repayment: the log now has the three rows in that order.
C22_Witness ==
    /\ resp.op = "process_overdue"
    /\ \E i \in 1..Len(loans) :
          LET log == loans[i].loan_transactions
          IN  /\ Len(log) = 3
              /\ log[1].transaction_type = "loan_issued"
              /\ log[2].transaction_type = "repayment"
              /\ log[3].transaction_type = "overdue_interest"

\* The sum of the amounts of the rows of one transaction_type among the
\* first k rows of a log.
RECURSIVE SumOfType(_, _, _)
SumOfType(rows, k, type) ==
    IF k = 0 THEN 0
    ELSE (IF rows[k].transaction_type = type THEN rows[k].amount ELSE 0)
            + SumOfType(rows, k - 1, type)

\* What the log of a loan says the loan owes: total_amount plus the
\* overdue_interest rows minus the repayment rows.
LedgerBalance(row) ==
    row.total_amount
        + SumOfType(row.loan_transactions, Len(row.loan_transactions),
                    "overdue_interest")
        - SumOfType(row.loan_transactions, Len(row.loan_transactions),
                    "repayment")

(***************************************************************************)
(* C25. Loan ledger consistency: in every reachable state the              *)
(* current_balance of an active loan is its total_amount plus the sum of   *)
(* its overdue_interest transactions minus the sum of its repayment        *)
(* transactions, and for a closed loan that expression lies between 0.00   *)
(* and 0.01.                                                               *)
(***************************************************************************)
C25_LoanLedger ==
    \A i \in 1..Len(loans) :
        IF loans[i].is_active
        THEN loans[i].current_balance = LedgerBalance(loans[i])
        ELSE LedgerBalance(loans[i]) \in 0..CLOSE_TOLERANCE

(***************************************************************************)
(* C26. Savings ledger consistency: after every step the savings_balance   *)
(* of each member is the sum of the amounts of that member's savings       *)
(* transactions, and no step lowers the savings_balance of a member.       *)
(***************************************************************************)
C26_SavingsLedger ==
    [][ /\ \A m \in 1..Len(members') :
              members'[m].savings_balance =
                  SumAmounts(members'[m].savings_transactions,
                             Len(members'[m].savings_transactions))
        /\ \A m \in 1..Len(members) :
              members'[m].savings_balance >= members[m].savings_balance
      ]_vars

\* A member has paid 0.01 twice after registering: three savings
\* transactions, and a balance of the initial deposit plus 0.02.
C26_Witness ==
    /\ resp.op = "pay_savings"
    /\ resp.status = "ok"
    /\ Len(members[resp.member].savings_transactions) = 3
    /\ members[resp.member].savings_balance = INITIAL_DEPOSIT + 2

(***************************************************************************)
(* C27. A closed loan is terminal: once is_active is false no step changes *)
(* the loan's current_balance, next_due_date or is_active or appends a     *)
(* transaction to it; and an issue_loan accepted later adds a new loan     *)
(* record, active, after the records there were.                           *)
(***************************************************************************)
C27_ClosedIsTerminal ==
    [][ /\ \A i \in 1..Len(loans) :
              ~loans[i].is_active =>
                  /\ i <= Len(loans')
                  /\ loans'[i] = loans[i]
        /\ (resp'.op = "issue_loan" /\ resp'.status = "ok") =>
              /\ Len(loans') = Len(loans) + 1
              /\ loans'[Len(loans')].is_active
              /\ loans'[Len(loans')].member_id = resp'.member
      ]_vars

\* A member whose first loan was repaid and closed has been issued a second
\* loan: the closed record is still there, and the new loan is record 2.
C27_Witness ==
    /\ resp.op = "issue_loan"
    /\ resp.status = "ok"
    /\ resp.loan = 2
    /\ ~loans[1].is_active
    /\ loans[1].member_id = resp.member
    /\ loans[1].current_balance = 0
    /\ loans[2].is_active

(***************************************************************************)
(* C28. The clock only moves forward, and with it the due dates: no step   *)
(* (accrual in a sweep, accrual and repayment in repay_loan, or any other) *)
(* moves the next_due_date of a loan to an earlier date.                   *)
(***************************************************************************)
C28_DueDateMonotone ==
    [][ /\ DateGE(today', today)
        /\ \A i \in 1..Len(loans) :
              DateGE(loans'[i].next_due_date, loans[i].next_due_date)
      ]_vars

\* A repayment made after the 5th was accepted on an overdue loan and left
\* it active: the accrual of the request charged at least one month, and
\* the loan is now due next month, later than the date it was overdue from.
C28_Witness ==
    /\ resp.op = "repay_loan"
    /\ resp.status = "ok"
    /\ resp.months >= 1
    /\ today.day > LOAN_DUE_DAY
    /\ loans[resp.loan].is_active
    /\ DateLT(today, loans[resp.loan].next_due_date)

\* The number of overdue_interest rows in the log of a stored loan.
InterestRows(row) ==
    Cardinality({ k \in 1..Len(row.loan_transactions) :
        row.loan_transactions[k].transaction_type = "overdue_interest" })

\* The clock dates from today on: an extra sweep runs today, the sweep that
\* is looked at on one of these dates.
SweepDates == { d \in ClockDates : DateGE(d, today) }

\* d2 is in a later calendar month than d1.
LaterMonth(d1, d2) == d2.year * 12 + d2.month > d1.year * 12 + d1.month

C30_FormIsReadOnly ==
    [][ (resp'.op = "repay_loan" /\ resp'.status \in {"form", "no_loan"}) =>
            /\ loans' = loans
            /\ members' = members
            /\ today' = today
      ]_vars

\* The form was opened for a loan at least one month overdue: the page
\* shows a balance with interest, and the stored loan still has the balance
\* it had, no overdue_interest row and its old due date.
C30_Witness ==
    /\ resp.op = "repay_loan"
    /\ resp.status = "form"
    /\ resp.months >= 1
    /\ resp.accrued > ToUnits(resp.before)
    /\ loans[resp.loan].current_balance = resp.before
    /\ InterestRows(loans[resp.loan]) = 0
    /\ DateLT(loans[resp.loan].next_due_date, today)

(***************************************************************************)
(* C23. Also when two issue_loan requests for the same member run at the   *)
(* same time, each finding no active loan before the other commits, at     *)
(* most one of them ends with a committed active loan: in every state of   *)
(* the concurrent system every member has at most one active loan.         *)
(***************************************************************************)
C23_OneActiveLoanConcurrently ==
    \A m \in 1..Len(members) : Cardinality(ActiveIn(loans, m)) <= 1

\* Threads r and w have both run to their end from the same rows, r an
\* accepted repayment on loan r.loan and w a sweep that found it overdue.
RepaidAndSwept(r, w) ==
    /\ r.phase = "done" /\ w.phase = "done"
    /\ r.op = "repay_loan" /\ w.op = "process_overdue"
    /\ r.seen = w.seen
    /\ r.loan # 0
    /\ RepaidLoan(r.seen[r.loan], r.amount, today).loan_transactions
          # r.seen[r.loan].loan_transactions
    /\ MonthsDue(r.seen[r.loan], today) >= 1

\* The loan a repayment of amount, handled alone on date t, commits.
RepayAlone(row, amount, t) == Flush(row, row, RepaidLoan(row, amount, t))

(***************************************************************************)
(* C24. A repayment and an overdue sweep that run at the same time on the  *)
(* same loan are serialized: the committed current_balance is the one of   *)
(* the sweep followed by the repayment or of the repayment followed by     *)
(* the sweep, so that neither the payment nor the interest is lost.        *)
(***************************************************************************)
C24_RepaymentAndSweepSerialized ==
    \A s, t \in Threads :
        RepaidAndSwept(sessions[s], sessions[t]) =>
            LET r == sessions[s]
                row == r.seen[r.loan]
            IN  loans[r.loan].current_balance \in
                    { RepayAlone(SweptLoan(row, today), r.amount, today)
                          .current_balance,
                      SweptLoan(RepayAlone(row, r.amount, today), today)
                          .current_balance }

\* The total interest _apply_overdue_interest flashes for a stored loan on
\* date d, to the cent as the message shows it: the balance of the session
\* object after the loop minus original_balance.
TotalInterest(row, d) ==
    RoundCents(apply_overdue_interest(LoadLoan(row), d).loan.current_balance
                  - ToUnits(row.current_balance))

(***************************************************************************)
(* C31. For every loan a sweep charges interest on, the total interest the *)
(* accrual reports is the current_balance after the sweep minus the        *)
(* current_balance before it, and is the sum of the amounts of the         *)
(* overdue_interest transactions the accrual appended; and no sweep lowers *)
(* the current_balance of a loan.                                          *)
(***************************************************************************)
C31_TotalInterest ==
    [][ resp'.op = "process_overdue" =>
          \A i \in 1..Len(loans) :
             LET added == Added(loans[i].loan_transactions,
                                loans'[i].loan_transactions)
             IN  /\ loans'[i].current_balance >= loans[i].current_balance
                 /\ MonthsDue(loans[i], today) >= 1 =>
                       /\ TotalInterest(loans[i], today) =
                             loans'[i].current_balance
                                - loans[i].current_balance
                       /\ TotalInterest(loans[i], today) =
                             SumAmounts(added, Len(added))
      ]_vars

====
